---- MODULE Spec2Model ----
(***************************************************************************)
(* Frame scheduler and animation integrator of the window event loop       *)
(* (src/window/application.rs, src/window/window_wrapper.rs).              *)
(*                                                                         *)
(* Instants and Durations are integers counted in ticks of one             *)
(* microsecond; an Instant is the number of ticks since the process        *)
(* started.  One route (window) exists at most: the wrapper's `routes` map *)
(* is modelled as a sequence of length 0 or 1.                             *)
(***************************************************************************)
EXTENDS Integers, Sequences, FiniteSets, TLC

VARIABLES
    routes,          \* WinitWindowWrapper.routes: << >> or <<RouteWindow>>
    idle,            \* Application.idle (CmdLineSettings.idle)
    refresh_rate,    \* WindowSettings.refresh_rate
    refresh_rate_idle, \* WindowSettings.refresh_rate_idle
    now,             \* the instant the last callback read from the clock
    control_flow,    \* the event loop's ControlFlow: "Poll" or a WaitUntil instant
    applied,         \* batches handed to Renderer::handle_draw_commands, in order
    received,        \* one entry per DrawCommandBatch delivered, in order:
                     \* whether pending_render was true when it arrived
    redraw_requested_flag, \* the platform holds an undelivered redraw request
    loop,            \* event loop phase: "start", "running", "exiting", "exited"
    last             \* what the last callback did (observation record)

vars == <<routes, idle, refresh_rate, refresh_rate_idle, now, control_flow,
          applied, received, redraw_requested_flag, loop, last>>

-----------------------------------------------------------------------------
(* Units *)

TicksPerSec == 1000 * 1000

Millis(n) == n * (TicksPerSec \div 1000)

Max(a, b) == IF a >= b THEN a ELSE b

Min(a, b) == IF a <= b THEN a ELSE b

\* Duration::saturating_sub
saturating_sub(a, b) == IF a >= b THEN a - b ELSE 0

\* Quotient rounded to the nearest tick, a half going up (Duration::from_secs_f32
\* and Duration::div_f64 round to the nearest representable Duration)
RoundDiv(a, b) == (2 * a + b) \div (2 * b)

\* Smallest integer >= a / b, for a >= 0 and b > 0 (f64::ceil)
CeilDiv(a, b) == (a + b - 1) \div b

-----------------------------------------------------------------------------
(* ShouldRender *)

Immediately == [tag |-> "Immediately", at |-> 0]

Wait == [tag |-> "Wait", at |-> 0]

Deadline(t) == [tag |-> "Deadline", at |-> t]

\* update escalating two deadlines to Immediately (the faulty variant C11 is
\* tested against)
update_deadlines_escalate(lhs, rhs) ==
    CASE lhs.tag = "Immediately" -> lhs
      [] rhs.tag = "Immediately" -> Immediately
      [] lhs.tag = "Deadline" /\ rhs.tag = "Deadline" -> Immediately
      [] lhs.tag = "Wait" /\ rhs.tag = "Deadline" -> Deadline(rhs.at)
      [] OTHER -> lhs

\* update as a plain assignment of rhs (the faulty variant C12 is tested
\* against)
update_last_wins(lhs, rhs) == rhs

\* update with the comparison reversed, keeping the later deadline (the faulty
\* variant C13 is tested against)
update_latest_deadline(lhs, rhs) ==
    CASE lhs.tag = "Immediately" -> lhs
      [] rhs.tag = "Immediately" -> Immediately
      [] lhs.tag = "Deadline" /\ rhs.tag = "Deadline" ->
            IF rhs.at > lhs.at THEN Deadline(rhs.at) ELSE lhs
      [] lhs.tag = "Wait" /\ rhs.tag = "Deadline" -> Deadline(rhs.at)
      [] OTHER -> lhs

\* update in which a Wait on the right clears a deadline (the faulty variant
\* C14 is tested against)
update_wait_clears(lhs, rhs) ==
    CASE lhs.tag = "Immediately" -> lhs
      [] rhs.tag = "Immediately" -> Immediately
      [] lhs.tag = "Deadline" /\ rhs.tag = "Deadline" ->
            IF rhs.at < lhs.at THEN Deadline(rhs.at) ELSE lhs
      [] lhs.tag = "Deadline" /\ rhs.tag = "Wait" -> Wait
      [] lhs.tag = "Wait" /\ rhs.tag = "Deadline" -> Deadline(rhs.at)
      [] OTHER -> lhs

\* update that never replaces a deadline by another one (the faulty variant
\* C15 is tested against)
update_keeps_first_deadline(lhs, rhs) ==
    CASE lhs.tag = "Immediately" -> lhs
      [] rhs.tag = "Immediately" -> Immediately
      [] lhs.tag = "Wait" /\ rhs.tag = "Deadline" -> Deadline(rhs.at)
      [] OTHER -> lhs

\* ShouldRender::update: self is lhs, the result is the new self
update(lhs, rhs) ==
    CASE lhs.tag = "Immediately" -> lhs
      [] rhs.tag = "Immediately" -> Immediately
      [] lhs.tag = "Deadline" /\ rhs.tag = "Deadline" ->
            IF rhs.at < lhs.at THEN Deadline(rhs.at) ELSE lhs
      [] lhs.tag = "Deadline" /\ rhs.tag = "Wait" -> lhs
      [] lhs.tag = "Wait" /\ rhs.tag = "Deadline" -> Deadline(rhs.at)
      [] OTHER -> lhs

-----------------------------------------------------------------------------
(* Program constants *)

\* MAX_ANIMATION_DT = 1.0 / 120.0 seconds: the number of such steps per second
MAX_ANIMATION_DT_PER_SEC == 120

\* Duration::from_millis(1000): the stall guard of animate
STALL_GUARD_MILLIS == 1000

\* delta.div_f64(10.0): a small lag is spread over this many frames
SMOOTHING_FRAMES == 10

-----------------------------------------------------------------------------
(* RouteWindow, and the state a callback threads through its calls *)

\* The RouteWindow that try_create_window inserts, created at instant t with
\* the given VSync implementation.  ui_state is FirstFrame when it returns.
NewRouteWindow(t, vs) ==
    [ previous_frame_start     |-> t,
      last_dt                  |-> 0,
      should_render            |-> Wait,
      num_consecutive_rendered |-> 0,
      focused                  |-> "Unfocused",
      pending_render           |-> FALSE,
      pending_draw_commands    |-> << >>,
      animation_start          |-> t,
      animation_time           |-> 0,
      ui_state                 |-> "FirstFrame",
      vsync                    |-> vs ]

\* No clock-integration step ran in the callback
NoAnim ==
    [ ran |-> FALSE, read_now |-> 0, dt_target |-> 0, pre_start |-> 0,
      pre_time |-> 0, raw_delta |-> 0, catchup |-> 0, step_dt |-> 0,
      num_steps |-> 0, step |-> 0, calls |-> << >>, moving |-> FALSE ]

\* The running state of one callback: the window, the clock, and what the
\* callback has done to its collaborators so far.
Enter(w, t) ==
    [ w        |-> w,
      now      |-> t,
      applied  |-> applied,
      redraw   |-> redraw_requested_flag,
      renders  |-> 0,
      requests |-> 0,
      prepared |-> FALSE,
      animated |-> FALSE,
      anim     |-> NoAnim,
      event    |-> "none",
      merged   |-> Wait,
      panicked |-> FALSE ]

\* routes.keys().next().unwrap(): the callback dies when there is no route
unwrap_route(a) == IF a.w = << >> THEN [a EXCEPT !.panicked = TRUE] ELSE a

\* VSync::uses_winit_throttling
uses_winit_throttling(w) == w.vsync = "WinitThrottling"

-----------------------------------------------------------------------------
(* EventDeadlineScheduler *)

\* get_refresh_rate without the idle branch: the active rate in every focus
\* state (the faulty variant C5 is tested against)
get_refresh_rate_always_active(w) == Max(refresh_rate, 1)

\* get_refresh_rate without the final .max(1.0) (the faulty variant C16 is
\* tested against)
get_refresh_rate_unfloored(w) ==
    IF w.focused \in {"Focused", "UnfocusedNotDrawn"}
        THEN refresh_rate
        ELSE refresh_rate_idle

\* Application::get_refresh_rate
get_refresh_rate(w) ==
    Max(IF w.focused \in {"Focused", "UnfocusedNotDrawn"}
            THEN refresh_rate
            ELSE refresh_rate_idle,
        1)

\* Application::get_frame_deadline
get_frame_deadline(w) ==
    w.previous_frame_start + RoundDiv(TicksPerSec, get_refresh_rate(w))

\* get_event_deadline without the pending-render early return (the faulty
\* variant C3 is tested against)
get_event_deadline_ignoring_pending(w, t) ==
    CASE w.should_render.tag = "Immediately" -> t
      [] w.should_render.tag = "Deadline" ->
             Min(w.should_render.at, get_frame_deadline(w))
      [] OTHER -> get_frame_deadline(w)

\* get_event_deadline taking a Deadline as it is, without the frame deadline
\* (the faulty variant C4 is tested against)
get_event_deadline_raw_deadline(w, t) ==
    IF w.pending_render
        THEN w.animation_start + w.animation_time
        ELSE CASE w.should_render.tag = "Immediately" -> t
               [] w.should_render.tag = "Deadline" -> w.should_render.at
               [] OTHER -> get_frame_deadline(w)

\* Application::get_event_deadline, Instant::now() reading t
get_event_deadline(w, t) ==
    IF w.pending_render
        THEN w.animation_start + w.animation_time
        ELSE CASE w.should_render.tag = "Immediately" -> t
               [] w.should_render.tag = "Deadline" ->
                      Min(w.should_render.at, get_frame_deadline(w))
               [] OTHER -> get_frame_deadline(w)

\* Application::schedule_next_event: the ControlFlow::WaitUntil it installs
schedule_next_event(w, t) == get_event_deadline(w, t)

-----------------------------------------------------------------------------
(* AnimationClock *)

\* raw delta of animate: target_animation_time.saturating_sub(animation_time)
raw_delta(w, t) == saturating_sub(t - w.animation_start, w.animation_time)

\* a stall guard that never trips (the faulty variant C27 is tested against)
stalled_never(w, t) == FALSE

\* the stall guard of animate
stalled(w, t) == raw_delta(w, t) > Millis(STALL_GUARD_MILLIS)

\* catchup that always snaps to the whole delta (the faulty variant C8 is
\* tested against)
catchup_no_smoothing(delta, dt) == delta

\* catchup that never catches up (the faulty variant C35 is tested against)
catchup_none(delta, dt) == 0

\* catchup of animate, from the delta left after the stall guard
catchup(delta, dt) ==
    IF delta >= dt THEN delta ELSE RoundDiv(delta, SMOOTHING_FRAMES)

\* num_steps as floor + 1 instead of ceil (the faulty variant C10 is tested
\* against)
num_steps_floor_plus_one(dt) ==
    (dt * MAX_ANIMATION_DT_PER_SEC) \div TicksPerSec + 1

\* num_steps of animate: (dt.as_secs_f64() / MAX_ANIMATION_DT).ceil()
num_steps(dt) == CeilDiv(dt * MAX_ANIMATION_DT_PER_SEC, TicksPerSec)

\* step of animate: Duration / u32 truncates
step(dt) == dt \div num_steps(dt)

\* How often animate invokes WinitWindowWrapper::animate_frame: once, before
\* the loop over the sub-steps
animate_frame_calls(dt) == <<step(dt)>>

\* Application::animate with vsync.get_refresh_rate giving dt_target,
\* Instant::now() reading a.now and animate_frame answering moving
animate(a, dt_target, moving) ==
    IF a.w = << >> THEN a ELSE
    LET w      == a.w
        t      == a.now
        raw    == raw_delta(w, t)
        reset  == stalled(w, t)
        start  == IF reset THEN t ELSE w.animation_start
        time0  == IF reset THEN 0 ELSE w.animation_time
        delta  == IF reset THEN dt_target ELSE raw
        cu     == catchup(delta, dt_target)
        dt     == dt_target + cu
        n      == num_steps(dt)
        w1     == [w EXCEPT !.animation_start = start,
                            !.animation_time = time0 + dt]
        w2     == IF moving /\ n > 0
                      THEN [w1 EXCEPT !.should_render = Immediately]
                      ELSE w1
    IN  [a EXCEPT !.w = w2,
                  !.animated = TRUE,
                  !.anim = [ ran |-> TRUE, read_now |-> t,
                             dt_target |-> dt_target,
                             pre_start |-> w.animation_start,
                             pre_time |-> w.animation_time,
                             raw_delta |-> raw, catchup |-> cu,
                             step_dt |-> dt, num_steps |-> n,
                             step |-> step(dt),
                             calls |-> animate_frame_calls(dt),
                             moving |-> moving ]]


-----------------------------------------------------------------------------
(* Render execution and the DrawCommandBuffer *)

\* WinitWindowWrapper::draw_frame: draws, waits for vsync (taking rd ticks),
\* presents, and on the first frame shows the window
draw_frame(a, rd) ==
    IF a.w = << >> THEN a ELSE
    [a EXCEPT !.now = a.now + rd,
              !.w.ui_state = IF a.w.ui_state = "FirstFrame"
                                 THEN "Showing" ELSE a.w.ui_state]

\* render without the increment of num_consecutive_rendered (the faulty
\* variant C24 is tested against)
render_not_counting(a, rd) ==
    LET a1 == draw_frame([a EXCEPT !.w.pending_render = FALSE], rd)
        w  == a1.w
    IN  [a1 EXCEPT
            !.w.focused = IF w.focused = "UnfocusedNotDrawn"
                              THEN "Unfocused" ELSE w.focused,
            !.w.last_dt = a1.now - w.previous_frame_start,
            !.w.previous_frame_start = a1.now,
            !.renders = a.renders + 1]

\* Application::render
\* render without the step from UnfocusedNotDrawn to Unfocused
render_keeping_focus(a, rd) ==
    LET a1 == draw_frame([a EXCEPT !.w.pending_render = FALSE], rd)
        w  == a1.w
    IN  [a1 EXCEPT
            !.w.num_consecutive_rendered = w.num_consecutive_rendered + 1,
            !.w.last_dt = a1.now - w.previous_frame_start,
            !.w.previous_frame_start = a1.now,
            !.renders = a.renders + 1]

render(a, rd) ==
    LET a1 == draw_frame([a EXCEPT !.w.pending_render = FALSE], rd)
        w  == a1.w
    IN  [a1 EXCEPT
            !.w.focused = IF w.focused = "UnfocusedNotDrawn"
                              THEN "Unfocused" ELSE w.focused,
            !.w.num_consecutive_rendered = w.num_consecutive_rendered + 1,
            !.w.last_dt = a1.now - w.previous_frame_start,
            !.w.previous_frame_start = a1.now,
            !.renders = a.renders + 1]

\* WinitWindowWrapper::handle_draw_commands: the batch reaches the renderer
handle_draw_commands(a, batch) ==
    [a EXCEPT !.applied = Append(a.applied, batch)]

\* the for loop of process_buffered_draw_commands over the drained batches
RECURSIVE handle_all(_, _)
handle_all(a, batches) ==
    IF batches = << >>
        THEN a
        ELSE handle_all(handle_draw_commands(a, Head(batches)), Tail(batches))

\* process_buffered_draw_commands without the early return on an empty
\* buffer (the faulty variant C22 is tested against)
process_buffered_draw_commands_always_forces(a) ==
    LET drained == a.w.pending_draw_commands
        a1      == [a EXCEPT !.w.pending_draw_commands = << >>]
    IN  [handle_all(a1, drained) EXCEPT !.w.should_render = Immediately]

\* Application::process_buffered_draw_commands
process_buffered_draw_commands(a) ==
    LET drained == a.w.pending_draw_commands
        a1      == [a EXCEPT !.w.pending_draw_commands = << >>]
    IN  IF drained = << >>
            THEN a1
            ELSE [handle_all(a1, drained) EXCEPT !.w.should_render = Immediately]

\* redraw_requested rendering whether or not a render is pending (the faulty
\* variant C21 is tested against)
redraw_requested_always_renders(a, rd) ==
    process_buffered_draw_commands(render(a, rd))

\* redraw_requested that renders and leaves the buffer alone (the faulty
\* variant C29 is tested against)
redraw_requested_without_flush(a, rd) ==
    IF a.w.pending_render
        THEN render(a, rd)
        ELSE [a EXCEPT !.w.should_render = Immediately]

\* redraw_requested taking the decision back to Wait once the pending render
\* has run (the faulty variant C33 is tested against)
redraw_requested_settling(a, rd) ==
    IF a.w.pending_render
        THEN [process_buffered_draw_commands(render(a, rd)) EXCEPT
                 !.w.should_render = Wait]
        ELSE [a EXCEPT !.w.should_render = Immediately]

\* Application::redraw_requested
redraw_requested(a, rd) ==
    IF a.w.pending_render
        THEN process_buffered_draw_commands(render(a, rd))
        ELSE [a EXCEPT !.w.should_render = Immediately]

-----------------------------------------------------------------------------
(* FrameOrchestrator *)

\* reset_animation_period also restarting the frame timing (the faulty
\* variant C18 is tested against)
reset_animation_period_restarts_frame(a) ==
    LET a1 == [a EXCEPT !.w.should_render = Wait]
    IN  IF a.w.num_consecutive_rendered = 0
            THEN [a1 EXCEPT !.w.animation_start = a.now,
                            !.w.animation_time = 0,
                            !.w.previous_frame_start = a.now]
            ELSE a1

\* reset_animation_period re-anchoring the baseline whatever the counter is
\* (the faulty variant C26 is tested against)
reset_animation_period_always_anchors(a) ==
    [a EXCEPT !.w.should_render = Wait,
              !.w.animation_start = a.now,
              !.w.animation_time = 0]

\* reset_animation_period leaving should_render as the cycle found it (the
\* faulty variant C34 is tested against)
reset_animation_period_keeping_decision(a) ==
    IF a.w.num_consecutive_rendered = 0
        THEN [a EXCEPT !.w.animation_start = a.now,
                       !.w.animation_time = 0]
        ELSE a

\* Application::reset_animation_period
reset_animation_period(a) ==
    LET a1 == [a EXCEPT !.w.should_render = Wait]
    IN  IF a.w.num_consecutive_rendered = 0
            THEN [a1 EXCEPT !.w.animation_start = a.now,
                            !.w.animation_time = 0]
            ELSE a1

\* schedule_render that does not look at skipped_frame (the faulty variant
\* C20 is tested against)
schedule_render_ignoring_skipped(a, skipped_frame, rd) ==
    IF uses_winit_throttling(a.w)
        THEN [a EXCEPT !.redraw = TRUE,
                       !.requests = a.requests + 1,
                       !.w.pending_render = TRUE]
        ELSE render(a, rd)

\* schedule_render unwrapping the first route instead of returning when
\* there is none (the faulty variant C28 is tested against)
schedule_render_unwrapping(a, skipped_frame, rd) ==
    IF a.w = << >> THEN unwrap_route(a) ELSE
    IF skipped_frame
        THEN a
        ELSE IF uses_winit_throttling(a.w)
                 THEN [a EXCEPT !.redraw = TRUE,
                                !.requests = a.requests + 1,
                                !.w.pending_render = TRUE]
                 ELSE render(a, rd)

\* Application::schedule_render
\* The render is marked pending but no redraw is asked of the window
schedule_render_not_requesting(a, skipped_frame, rd) ==
    IF a.w = << >> THEN a ELSE
    IF skipped_frame
        THEN a
        ELSE IF uses_winit_throttling(a.w)
                 THEN [a EXCEPT !.w.pending_render = TRUE]
                 ELSE render(a, rd)

schedule_render(a, skipped_frame, rd) ==
    IF a.w = << >> THEN a ELSE
    IF skipped_frame
        THEN a
        ELSE IF uses_winit_throttling(a.w)
                 THEN [a EXCEPT !.redraw = TRUE,
                                !.requests = a.requests + 1,
                                !.w.pending_render = TRUE]
                 ELSE render(a, rd)

\* skipped_frame of prepare_and_animate
skipped_frame(w, t) ==
    w.pending_render /\ t > w.animation_start + w.animation_time

\* WinitWindowWrapper::prepare_frame: the window is created, so ui_state is at
\* least FirstFrame; the first frame forces Immediately, otherwise the result
\* is what the size check and the renderer's own prepare_frame (res) merge to
prepare_frame(w, res) ==
    IF w.ui_state = "FirstFrame" THEN update(Immediately, res) ELSE update(Wait, res)

\* prepare_and_animate deciding to animate without looking at idle (the
\* faulty variant C19 is tested against)
prepare_and_animate_ignoring_idle(a, res, dt_target, moving, rd) ==
    LET should_prepare == ~a.w.pending_render \/ skipped_frame(a.w, a.now)
        a1 == [a EXCEPT !.prepared = TRUE,
                        !.w.should_render =
                            update(a.w.should_render, prepare_frame(a.w, res)),
                        !.merged =
                            update(a.w.should_render, prepare_frame(a.w, res))]
        skipped == skipped_frame(a1.w, a1.now)
        should_animate == a1.w.should_render = Immediately \/ skipped
    IN  IF ~should_prepare
            THEN a
            ELSE IF should_animate
                THEN schedule_render(
                         animate(reset_animation_period(a1), dt_target, moving),
                         skipped, rd)
                ELSE [a1 EXCEPT
                         !.w.num_consecutive_rendered = 0,
                         !.w.last_dt = a1.now - a1.w.previous_frame_start,
                         !.w.previous_frame_start = a1.now]

\* prepare_and_animate keeping the counter in a cycle that does not animate
\* (the faulty variant C25 is tested against)
prepare_and_animate_keeping_counter(a, res, dt_target, moving, rd) ==
    LET should_prepare == ~a.w.pending_render \/ skipped_frame(a.w, a.now)
        a1 == [a EXCEPT !.prepared = TRUE,
                        !.w.should_render =
                            update(a.w.should_render, prepare_frame(a.w, res)),
                        !.merged =
                            update(a.w.should_render, prepare_frame(a.w, res))]
        skipped == skipped_frame(a1.w, a1.now)
        should_animate ==
            a1.w.should_render = Immediately \/ ~idle \/ skipped
    IN  IF ~should_prepare
            THEN a
            ELSE IF should_animate
                THEN schedule_render(
                         animate(reset_animation_period(a1), dt_target, moving),
                         skipped, rd)
                ELSE [a1 EXCEPT
                         !.w.last_dt = a1.now - a1.w.previous_frame_start,
                         !.w.previous_frame_start = a1.now]

\* prepare_and_animate preparing in every cycle, a render pending or not (the
\* faulty variant C30 is tested against)
prepare_and_animate_always_prepares(a, res, dt_target, moving, rd) ==
    LET a1 == [a EXCEPT !.prepared = TRUE,
                        !.w.should_render =
                            update(a.w.should_render, prepare_frame(a.w, res)),
                        !.merged =
                            update(a.w.should_render, prepare_frame(a.w, res))]
        skipped == skipped_frame(a1.w, a1.now)
        should_animate ==
            a1.w.should_render = Immediately \/ ~idle \/ skipped
    IN  IF should_animate
            THEN schedule_render(
                     animate(reset_animation_period(a1), dt_target, moving),
                     skipped, rd)
            ELSE [a1 EXCEPT
                     !.w.num_consecutive_rendered = 0,
                     !.w.last_dt = a1.now - a1.w.previous_frame_start,
                     !.w.previous_frame_start = a1.now]

\* prepare_and_animate trying the render again in a cycle that finds the frame
\* skipped (the faulty variant C31 is tested against)
prepare_and_animate_retrying_skipped(a, res, dt_target, moving, rd) ==
    LET should_prepare == ~a.w.pending_render \/ skipped_frame(a.w, a.now)
        a1 == [a EXCEPT !.prepared = TRUE,
                        !.w.should_render =
                            update(a.w.should_render, prepare_frame(a.w, res)),
                        !.merged =
                            update(a.w.should_render, prepare_frame(a.w, res))]
        skipped == skipped_frame(a1.w, a1.now)
        should_animate ==
            a1.w.should_render = Immediately \/ ~idle \/ skipped
    IN  IF ~should_prepare
            THEN a
            ELSE IF should_animate
                THEN schedule_render(
                         animate(reset_animation_period(a1), dt_target, moving),
                         FALSE, rd)
                ELSE [a1 EXCEPT
                         !.w.num_consecutive_rendered = 0,
                         !.w.last_dt = a1.now - a1.w.previous_frame_start,
                         !.w.previous_frame_start = a1.now]

\* prepare_and_animate restarting the frame timing in a cycle that waits for
\* the pending render (the faulty variant C32 is tested against)
prepare_and_animate_timing_while_waiting(a, res, dt_target, moving, rd) ==
    LET should_prepare == ~a.w.pending_render \/ skipped_frame(a.w, a.now)
        a1 == [a EXCEPT !.prepared = TRUE,
                        !.w.should_render =
                            update(a.w.should_render, prepare_frame(a.w, res)),
                        !.merged =
                            update(a.w.should_render, prepare_frame(a.w, res))]
        skipped == skipped_frame(a1.w, a1.now)
        should_animate ==
            a1.w.should_render = Immediately \/ ~idle \/ skipped
    IN  IF ~should_prepare
            THEN [a EXCEPT
                     !.w.num_consecutive_rendered = 0,
                     !.w.last_dt = a.now - a.w.previous_frame_start,
                     !.w.previous_frame_start = a.now]
            ELSE IF should_animate
                THEN schedule_render(
                         animate(reset_animation_period(a1), dt_target, moving),
                         skipped, rd)
                ELSE [a1 EXCEPT
                         !.w.num_consecutive_rendered = 0,
                         !.w.last_dt = a1.now - a1.w.previous_frame_start,
                         !.w.previous_frame_start = a1.now]

\* Application::prepare_and_animate
prepare_and_animate(a, res, dt_target, moving, rd) ==
    IF a.w = << >> THEN unwrap_route(a) ELSE
    LET should_prepare == ~a.w.pending_render \/ skipped_frame(a.w, a.now)
        a1 == [a EXCEPT !.prepared = TRUE,
                        !.w.should_render =
                            update(a.w.should_render, prepare_frame(a.w, res)),
                        !.merged =
                            update(a.w.should_render, prepare_frame(a.w, res))]
        skipped == skipped_frame(a1.w, a1.now)
        should_animate ==
            a1.w.should_render = Immediately \/ ~idle \/ skipped
    IN  IF ~should_prepare
            THEN a
            ELSE IF should_animate
                \* reset_animation_period, animate, schedule_render in turn,
                \* each on the state the one before left
                THEN CHOOSE a4 \in
                         {schedule_render(a3, skipped, rd) :
                            a3 \in {animate(a2, dt_target, moving) :
                               a2 \in {reset_animation_period(a1)}}} : TRUE
                ELSE [a1 EXCEPT
                         !.w.num_consecutive_rendered = 0,
                         !.w.last_dt = a1.now - a1.w.previous_frame_start,
                         !.w.previous_frame_start = a1.now]


-----------------------------------------------------------------------------
(* Bounds and the inputs the environment draws from *)

\* The clock stops advancing at this many milliseconds
MaxNowMillis == 30

\* At most this many DrawCommandBatch events are delivered
MaxBatches == 2

\* Renders in a row that the model follows before the counter is capped
MaxRendered == 1

\* The simulated animation time may run this many milliseconds ahead
MaxLeadMillis == 40

\* Ticks that pass between two callbacks
Deltas == {0, Millis(20)}

\* Ticks that draw_frame blocks for
RenderTicks == {Millis(4)}

\* Frame periods that vsync.get_refresh_rate reports
DtTargets == {Millis(16)}

\* VSync implementations a window can be created with
VSyncs == {"WinitThrottling", "Blocking"}

\* What the size check and the renderer's prepare_frame merge to at instant t
PrepareResults(t) == {Wait, Immediately, Deadline(t + Millis(10))}

\* The window-event kinds the handlers tell apart: "Handled" stands for the
\* events handle_window_event answers true for, "Other" for the rest
WindowEvents ==
    {[kind |-> "RedrawRequested", focus |-> FALSE],
     [kind |-> "Focused", focus |-> TRUE],
     [kind |-> "Focused", focus |-> FALSE],
     [kind |-> "Handled", focus |-> FALSE],
     [kind |-> "Moved", focus |-> FALSE],
     [kind |-> "Other", focus |-> FALSE]}

window == routes[1]

InBounds(a) ==
    /\ a.now <= Millis(MaxNowMillis)
    /\ a.w.animation_start + a.w.animation_time
           <= Millis(MaxNowMillis) + Millis(MaxLeadMillis)
    /\ a.w.num_consecutive_rendered <= MaxRendered

Poll == [kind |-> "Poll", at |-> 0]

WaitUntil(t) == [kind |-> "WaitUntil", at |-> t]

\* What a callback leaves behind for the observer
Observed(op, a) ==
    [ op |-> op, renders |-> a.renders, requests |-> a.requests,
      prepared |-> a.prepared, animated |-> a.animated, anim |-> a.anim,
      event |-> a.event, merged |-> a.merged, panicked |-> a.panicked ]

\* The callback's effects on the window and its collaborators take hold
Commit(op, a) ==
    /\ InBounds(a)
    /\ routes' = <<a.w>>
    /\ now' = a.now
    /\ applied' = a.applied
    /\ redraw_requested_flag' = a.redraw
    /\ last' = Observed(op, a)

-----------------------------------------------------------------------------
(* The ApplicationHandler callbacks *)

Init ==
    /\ routes = << >>
    /\ idle \in BOOLEAN
    /\ refresh_rate = 60
    /\ refresh_rate_idle = 5
    /\ now = 0
    /\ control_flow = Poll
    /\ applied = << >>
    /\ received = << >>
    /\ redraw_requested_flag = FALSE
    /\ loop = "start"
    /\ last = Observed("none", Enter(<< >>, 0))

\* WinitWindowWrapper::try_create_window: requests a first redraw and inserts
\* the route
try_create_window(t, vs) ==
    [Enter(NewRouteWindow(t, vs), t) EXCEPT !.redraw = TRUE, !.requests = 1]

\* new_events(StartCause::Init)
new_events_init ==
    /\ loop = "start"
    /\ \E vs \in VSyncs :
         LET a == try_create_window(now, vs)
         IN  /\ Commit("new_events", a)
             /\ control_flow' = WaitUntil(schedule_next_event(a.w, a.now))
    /\ loop' = "running"
    /\ UNCHANGED <<idle, refresh_rate, refresh_rate_idle, received>>

\* new_events with any other cause
new_events ==
    /\ loop = "running"
    /\ \E d \in Deltas :
         LET a == Enter(window, now + d)
         IN  /\ Commit("new_events", a)
             /\ control_flow' = WaitUntil(schedule_next_event(a.w, a.now))
    /\ UNCHANGED <<idle, refresh_rate, refresh_rate_idle, received, loop>>

\* WinitWindowWrapper::handle_window_event: its answer for the event
handle_window_event(w, event) ==
    /\ w.ui_state \in {"FirstFrame", "Showing"}
    /\ event.kind \notin {"RedrawRequested", "Other"}

\* the match of window_event with a lost focus going straight to Unfocused
\* (the faulty variant C17 is tested against)
window_event_match_lost_is_unfocused(a, event, rd) ==
    CASE event.kind = "RedrawRequested" ->
            redraw_requested([a EXCEPT !.redraw = FALSE], rd)
      [] event.kind = "Focused" ->
            [a EXCEPT !.w.focused = IF event.focus THEN "Focused"
                                                   ELSE "Unfocused"]
      [] OTHER -> a

\* the match of window_event on the event
window_event_match(a, event, rd) ==
    CASE event.kind = "RedrawRequested" ->
            redraw_requested([a EXCEPT !.redraw = FALSE], rd)
      [] event.kind = "Focused" ->
            [a EXCEPT !.w.focused = IF event.focus THEN "Focused"
                                                   ELSE "UnfocusedNotDrawn"]
      [] OTHER -> a

\* vsync.update(window) in the Moved arm of handle_window_event: the VSync
\* answers for a mode vs from then on
vsync_update(a, event, vs) ==
    IF event.kind = "Moved" THEN [a EXCEPT !.w.vsync = vs] ELSE a

\* The name the observer knows a window event by
EventName(event) ==
    IF event.kind = "Focused"
        THEN (IF event.focus THEN "FocusGained" ELSE "FocusLost")
        ELSE event.kind

\* Application::window_event
window_event ==
    /\ loop = "running"
    /\ \E d \in Deltas, event \in WindowEvents, rd \in RenderTicks :
       \E vs \in (IF event.kind = "Moved" THEN VSyncs ELSE {window.vsync}) :
         LET a0 == [Enter(window, now + d) EXCEPT !.event = EventName(event)]
             a1 == window_event_match(a0, event, rd)
             a2 == vsync_update(a1, event, vs)
             a  == IF handle_window_event(a2.w, event)
                       THEN [a2 EXCEPT !.w.should_render = Immediately]
                       ELSE a2
         IN  /\ Commit("window_event", a)
             /\ control_flow' = WaitUntil(schedule_next_event(a.w, a.now))
    /\ UNCHANGED <<idle, refresh_rate, refresh_rate_idle, received, loop>>

\* WinitWindowWrapper::handle_user_event
handle_user_event(a, payload) ==
    IF payload.kind = "DrawCommandBatch"
        THEN handle_draw_commands(a, payload.batch)
        ELSE a

\* the match of user_event buffering every batch, pending render or not (the
\* faulty variant C23 is tested against)
user_event_match_always_buffers(a, payload, rd) ==
    CASE payload.kind = "NeovimExited" -> a
      [] payload.kind = "RedrawRequested" -> redraw_requested(a, rd)
      [] payload.kind = "DrawCommandBatch" ->
            [a EXCEPT !.w.pending_draw_commands =
                          Append(a.w.pending_draw_commands, payload.batch)]
      [] OTHER -> [a EXCEPT !.w.should_render = Immediately]

\* the match of user_event on the payload
user_event_match(a, payload, rd) ==
    CASE payload.kind = "NeovimExited" -> a
      [] payload.kind = "RedrawRequested" -> redraw_requested(a, rd)
      [] payload.kind = "DrawCommandBatch" /\ a.w.pending_render ->
            [a EXCEPT !.w.pending_draw_commands =
                          Append(a.w.pending_draw_commands, payload.batch)]
      [] OTHER -> [a EXCEPT !.w.should_render = Immediately]

\* The payloads user_event can be handed: the next batch, while any is left
UserEvents ==
    {[kind |-> "NeovimExited", batch |-> 0],
     [kind |-> "RedrawRequested", batch |-> 0],
     [kind |-> "Other", batch |-> 0]}
    \cup (IF Len(received) < MaxBatches
              THEN {[kind |-> "DrawCommandBatch", batch |-> Len(received) + 1]}
              ELSE {})

\* Application::user_event
user_event ==
    /\ loop = "running"
    /\ \E d \in Deltas, payload \in UserEvents, rd \in RenderTicks :
         LET a == handle_user_event(
                      user_event_match(
                          [Enter(window, now + d) EXCEPT !.event = payload.kind],
                          payload, rd),
                      payload)
         IN  /\ Commit("user_event", a)
             /\ control_flow' = WaitUntil(schedule_next_event(a.w, a.now))
             /\ received' = IF payload.kind = "DrawCommandBatch"
                                THEN Append(received, window.pending_render)
                                ELSE received
             /\ loop' = IF payload.kind = "NeovimExited"
                            THEN "exiting" ELSE loop
    /\ UNCHANGED <<idle, refresh_rate, refresh_rate_idle>>

\* about_to_wait installing the wake time before the cycle runs (the faulty
\* variant C6 is tested against)
about_to_wait_stale ==
    /\ loop = "running"
    /\ \E d \in Deltas, dt \in DtTargets, moving \in BOOLEAN,
          rd \in RenderTicks :
       \E res \in PrepareResults(now + d) :
         LET a == prepare_and_animate(Enter(window, now + d), res, dt, moving, rd)
         IN  /\ Commit("about_to_wait", a)
             /\ control_flow' = WaitUntil(schedule_next_event(window, now + d))
    /\ UNCHANGED <<idle, refresh_rate, refresh_rate_idle, received, loop>>

\* Application::about_to_wait
about_to_wait ==
    /\ loop = "running"
    /\ \E d \in Deltas, dt \in DtTargets, moving \in BOOLEAN,
          rd \in RenderTicks :
       \E res \in PrepareResults(now + d) :
         LET a == prepare_and_animate(Enter(window, now + d), res, dt, moving, rd)
         IN  /\ Commit("about_to_wait", a)
             /\ control_flow' = WaitUntil(schedule_next_event(a.w, a.now))
    /\ UNCHANGED <<idle, refresh_rate, refresh_rate_idle, received, loop>>

\* Application::resumed
resumed ==
    /\ loop = "running"
    /\ \E d \in Deltas :
         LET a == Enter(window, now + d)
         IN  /\ Commit("resumed", a)
             /\ control_flow' = WaitUntil(schedule_next_event(a.w, a.now))
    /\ UNCHANGED <<idle, refresh_rate, refresh_rate_idle, received, loop>>

\* Application::exiting
exiting ==
    /\ loop = "exiting"
    /\ \E d \in Deltas :
         LET a == Enter(window, now + d)
         IN  /\ Commit("exiting", a)
             /\ control_flow' = WaitUntil(schedule_next_event(a.w, a.now))
    /\ loop' = "exited"
    /\ UNCHANGED <<idle, refresh_rate, refresh_rate_idle, received>>

Next ==
    \/ new_events_init
    \/ new_events
    \/ window_event
    \/ user_event
    \/ about_to_wait
    \/ resumed
    \/ exiting

Spec == Init /\ [][Next]_vars


-----------------------------------------------------------------------------
(* The wake-deadline computation on its own: schedule_next_event applied to a
   window whose fields are drawn from the values below *)

DeadlineInstants == {0, Millis(10), Millis(30), Millis(300), Millis(2000)}

DeadlineDecisions ==
    {Wait, Immediately} \cup {Deadline(t) : t \in DeadlineInstants}

DeadlineRates == {0, 1, 5, 60}

InitDeadline ==
    /\ \E pfs \in {0, Millis(10)}, st \in {0, Millis(10)},
          at \in {0, Millis(16), Millis(500)},
          f \in {"Focused", "UnfocusedNotDrawn", "Unfocused"},
          p \in BOOLEAN, sr \in DeadlineDecisions :
         routes = << [NewRouteWindow(0, "WinitThrottling") EXCEPT
                         !.previous_frame_start = pfs,
                         !.animation_start = st,
                         !.animation_time = at,
                         !.focused = f,
                         !.pending_render = p,
                         !.should_render = sr,
                         !.ui_state = "Showing"] >>
    /\ idle = FALSE
    /\ refresh_rate \in DeadlineRates
    /\ refresh_rate_idle \in DeadlineRates
    /\ now \in {Millis(10), Millis(25)}
    /\ control_flow = Poll
    /\ applied = << >>
    /\ received = << >>
    /\ redraw_requested_flag = FALSE
    /\ loop = "running"
    /\ last = Observed("none", Enter(<< >>, 0))

\* Application::schedule_next_event on the drawn window
schedule_only ==
    /\ last.op = "none"
    /\ control_flow' = WaitUntil(schedule_next_event(window, now))
    /\ last' = Observed("schedule_next_event", Enter(window, now))
    /\ UNCHANGED <<routes, idle, refresh_rate, refresh_rate_idle, now, applied,
                   received, redraw_requested_flag, loop>>

SpecDeadline == InitDeadline /\ [][schedule_only]_vars

-----------------------------------------------------------------------------
(* The clock-integration step on its own: animate applied to a window whose
   animation clock is drawn from the values below *)

\* Simulated times already accumulated
AnimTimes == {0, Millis(16), Millis(100)}

\* How far the wall clock is ahead of animation_start + animation_time
AnimLags ==
    {0, 1, 15, Millis(4), Millis(4) + 5, Millis(8) - 1, Millis(16), Millis(40),
     Millis(1000), Millis(1000) + 1, Millis(2000), Millis(60000)}

\* Frame periods handed to the step
AnimDtTargets == {1, Millis(8), Millis(16), Millis(50), Millis(1000)}

InitAnimate ==
    /\ \E st \in {0, Millis(7)}, at \in AnimTimes, lag \in AnimLags,
          early \in {0, Millis(3)} :
         /\ routes = << [NewRouteWindow(0, "WinitThrottling") EXCEPT
                            !.animation_start = st,
                            !.animation_time = at,
                            !.ui_state = "Showing"] >>
         \* the simulated time is usually in the future: early > 0 with no lag
         /\ now = IF lag = 0 THEN Max(st, st + at - early) ELSE st + at + lag
    /\ idle = FALSE
    /\ refresh_rate = 60
    /\ refresh_rate_idle = 5
    /\ control_flow = Poll
    /\ applied = << >>
    /\ received = << >>
    /\ redraw_requested_flag = FALSE
    /\ loop = "running"
    /\ last = Observed("none", Enter(<< >>, 0))

\* Application::animate on the drawn window
animate_only ==
    /\ last.op = "none"
    /\ \E dt \in AnimDtTargets, moving \in BOOLEAN :
         LET a == animate(Enter(window, now), dt, moving)
         IN  /\ routes' = <<a.w>>
             /\ last' = Observed("animate", a)
    /\ UNCHANGED <<idle, refresh_rate, refresh_rate_idle, now, control_flow,
                   applied, received, redraw_requested_flag, loop>>

SpecAnimate == InitAnimate /\ [][animate_only]_vars


-----------------------------------------------------------------------------
(* The merge on its own: update folded, one decision at a time, into the
   should_render of a window that starts with a drawn decision *)

\* At most this many decisions are merged into the starting one
MaxFolded == 3

\* Deadlines that are merged, in ticks
MergeInstants == {Millis(2), Millis(5), Millis(9)}

MergeDecisions == {Wait, Immediately} \cup {Deadline(t) : t \in MergeInstants}

\* What a merge leaves behind for the observer: the starting decision, the
\* decisions merged so far in their order, and the operands of the last merge
Merged(op, start, folded, lhs, rhs) ==
    [ op |-> op, start |-> start, folded |-> folded, lhs |-> lhs, rhs |-> rhs ]

InitMerge ==
    /\ \E sr \in MergeDecisions :
         /\ routes = << [NewRouteWindow(0, "WinitThrottling") EXCEPT
                            !.should_render = sr,
                            !.ui_state = "Showing"] >>
         /\ last = Merged("none", sr, << >>, sr, sr)
    /\ idle = FALSE
    /\ refresh_rate = 60
    /\ refresh_rate_idle = 5
    /\ now = 0
    /\ control_flow = Poll
    /\ applied = << >>
    /\ received = << >>
    /\ redraw_requested_flag = FALSE
    /\ loop = "running"

\* self.should_render.update(rhs) on the window
update_only ==
    /\ Len(last.folded) < MaxFolded
    /\ \E rhs \in MergeDecisions :
         /\ routes' = << [window EXCEPT
                             !.should_render = update(window.should_render, rhs)] >>
         /\ last' = Merged("update", last.start, Append(last.folded, rhs),
                           window.should_render, rhs)
    /\ UNCHANGED <<idle, refresh_rate, refresh_rate_idle, now, control_flow,
                   applied, received, redraw_requested_flag, loop>>

SpecMerge == InitMerge /\ [][update_only]_vars


-----------------------------------------------------------------------------
(* The render step on its own: render applied to a window whose fields are
   drawn from the values below *)

\* Buffers a window can hold when render starts: empty unless a render is
\* pending
RenderBuffers(pending) == IF pending THEN {<< >>, <<1>>, <<1, 2>>} ELSE {<< >>}

InitRender ==
    /\ \E pfs \in {0, Millis(10)}, f \in {"Focused", "UnfocusedNotDrawn", "Unfocused"},
          p \in BOOLEAN, n \in 0..2, sr \in {Wait, Immediately, Deadline(Millis(30))},
          u \in {"FirstFrame", "Showing"}, at \in {0, Millis(16)} :
       \E buf \in RenderBuffers(p) :
         routes = << [NewRouteWindow(0, "WinitThrottling") EXCEPT
                         !.previous_frame_start = pfs,
                         !.last_dt = Millis(3),
                         !.focused = f,
                         !.pending_render = p,
                         !.num_consecutive_rendered = n,
                         !.should_render = sr,
                         !.pending_draw_commands = buf,
                         !.animation_time = at,
                         !.ui_state = u] >>
    /\ idle = FALSE
    /\ refresh_rate = 60
    /\ refresh_rate_idle = 5
    /\ now \in {Millis(10), Millis(25)}
    /\ control_flow = Poll
    /\ applied = << >>
    /\ received = << >>
    /\ redraw_requested_flag = FALSE
    /\ loop = "running"
    /\ last = Observed("none", Enter(<< >>, 0))

\* Application::render on the drawn window
render_only ==
    /\ last.op = "none"
    /\ \E rd \in {0, Millis(4)} :
         LET a == render(Enter(window, now), rd)
         IN  /\ routes' = <<a.w>>
             /\ now' = a.now
             /\ last' = Observed("render", a)
    /\ UNCHANGED <<idle, refresh_rate, refresh_rate_idle, control_flow,
                   applied, received, redraw_requested_flag, loop>>

SpecRender == InitRender /\ [][render_only]_vars

-----------------------------------------------------------------------------
(* The operations that look up the active route, on a routes map that may be
   empty: each is applied once to a drawn map *)

\* The window the operation finds, << >> when the map is empty
ActiveWindow == IF routes = << >> THEN << >> ELSE routes[1]

\* What the operation leaves behind
Settle(op, a) ==
    /\ routes' = IF a.w = << >> THEN << >> ELSE <<a.w>>
    /\ now' = a.now
    /\ applied' = a.applied
    /\ redraw_requested_flag' = a.redraw
    /\ last' = Observed(op, a)

\* The end of a callback: schedule_next_event, whose get_event_deadline
\* unwraps the first route, unless the callback has died before
CallbackEnds(op, a) ==
    LET a1 == IF a.panicked THEN a ELSE unwrap_route(a)
    IN  /\ Settle(op, a1)
        /\ control_flow' = IF a1.panicked
                               THEN control_flow
                               ELSE WaitUntil(schedule_next_event(a1.w, a1.now))

InitAnyRoutes ==
    /\ routes \in {<< >>} \cup
           { << [NewRouteWindow(0, vs) EXCEPT
                    !.should_render = sr,
                    !.pending_render = p,
                    !.animation_time = Millis(16),
                    !.ui_state = "Showing"] >> :
               vs \in VSyncs, sr \in {Wait, Immediately}, p \in BOOLEAN }
    /\ idle \in BOOLEAN
    /\ refresh_rate = 60
    /\ refresh_rate_idle = 5
    /\ now \in {Millis(20), Millis(30)}
    /\ control_flow = Poll
    /\ applied = << >>
    /\ received = << >>
    /\ redraw_requested_flag = FALSE
    /\ loop = "running"
    /\ last = Observed("none", Enter(<< >>, 0))

\* Application::about_to_wait
any_about_to_wait ==
    /\ last.op = "none"
    /\ \E res \in PrepareResults(now), dt \in DtTargets, moving \in BOOLEAN,
          rd \in RenderTicks :
         CallbackEnds("about_to_wait",
                      prepare_and_animate(Enter(ActiveWindow, now), res, dt,
                                          moving, rd))
    /\ UNCHANGED <<idle, refresh_rate, refresh_rate_idle, received, loop>>

\* Application::user_event with a payload other than a batch or the exit
any_user_event ==
    /\ last.op = "none"
    /\ \E kind \in {"RedrawRequested", "Other"}, rd \in RenderTicks :
         LET payload == [kind |-> kind, batch |-> 0]
             a0 == unwrap_route([Enter(ActiveWindow, now) EXCEPT !.event = kind])
             a  == IF a0.panicked
                       THEN a0
                       ELSE handle_user_event(user_event_match(a0, payload, rd),
                                              payload)
         IN  CallbackEnds("user_event", a)
    /\ UNCHANGED <<idle, refresh_rate, refresh_rate_idle, received, loop>>

\* Application::resumed
any_resumed ==
    /\ last.op = "none"
    /\ CallbackEnds("resumed", unwrap_route(Enter(ActiveWindow, now)))
    /\ UNCHANGED <<idle, refresh_rate, refresh_rate_idle, received, loop>>

\* Application::schedule_next_event
any_schedule_next_event ==
    /\ last.op = "none"
    /\ CallbackEnds("schedule_next_event", Enter(ActiveWindow, now))
    /\ UNCHANGED <<idle, refresh_rate, refresh_rate_idle, received, loop>>

\* Application::animate
any_animate ==
    /\ last.op = "none"
    /\ \E dt \in DtTargets, moving \in BOOLEAN :
         Settle("animate", animate(Enter(ActiveWindow, now), dt, moving))
    /\ UNCHANGED <<idle, refresh_rate, refresh_rate_idle, control_flow,
                   received, loop>>

\* Application::schedule_render: the frame is skipped only when a render is
\* pending
any_schedule_render ==
    /\ last.op = "none"
    /\ \E skipped \in BOOLEAN, rd \in RenderTicks :
         /\ routes # << >> => skipped = routes[1].pending_render
         /\ Settle("schedule_render",
                   schedule_render(Enter(ActiveWindow, now), skipped, rd))
    /\ UNCHANGED <<idle, refresh_rate, refresh_rate_idle, control_flow,
                   received, loop>>

\* WinitWindowWrapper::draw_frame
any_draw_frame ==
    /\ last.op = "none"
    /\ \E rd \in RenderTicks :
         Settle("draw_frame", draw_frame(Enter(ActiveWindow, now), rd))
    /\ UNCHANGED <<idle, refresh_rate, refresh_rate_idle, control_flow,
                   received, loop>>

NextAnyRoutes ==
    \/ any_about_to_wait
    \/ any_user_event
    \/ any_resumed
    \/ any_schedule_next_event
    \/ any_animate
    \/ any_schedule_render
    \/ any_draw_frame

SpecAnyRoutes == InitAnyRoutes /\ [][NextAnyRoutes]_vars

-----------------------------------------------------------------------------
(* The event loop as long as it runs: no exit is delivered, and the loop goes
   on past the instant at which the model's clock stops advancing.  The
   quantities that grow without bound are kept at the values beyond which the
   handlers cannot tell them apart: the clock reads LiveHorizonMillis from then on,
   num_consecutive_rendered (only compared with 0) stays at MaxRendered, and
   animation_start + animation_time (only compared with the clock) stays
   MaxLeadMillis ahead of the last instant. *)

\* The clock of the running loop stops advancing at this many milliseconds
LiveHorizonMillis == 20

\* The instant a callback reads when t ticks have passed
LiveClock(t) == Min(t, Millis(LiveHorizonMillis))

\* How long draw_frame blocks when it starts at t
LiveRenderTicks(t) == {Min(rd, Millis(LiveHorizonMillis) - t) : rd \in RenderTicks}

\* The callback's state with the unbounded quantities kept in range
Clamp(a) ==
    [a EXCEPT
        !.w.num_consecutive_rendered = Min(@, MaxRendered),
        !.w.animation_time =
            Min(@, Millis(LiveHorizonMillis) + Millis(MaxLeadMillis)
                       - a.w.animation_start)]

\* What a callback leaves behind for the observer: how often it rendered and
\* whether it found the window unfocused and not yet drawn
Seen(a, was) ==
    [ renders |-> a.renders, undrawn |-> (was = "UnfocusedNotDrawn") ]

\* The callback's effects take hold and schedule_next_event installs the wake
Land(a, was) ==
    \E b \in {Clamp(a)} :
        /\ routes' = <<b.w>>
        /\ now' = b.now
        /\ applied' = b.applied
        /\ redraw_requested_flag' = b.redraw
        /\ last' = Seen(b, was)
        /\ control_flow' = WaitUntil(schedule_next_event(b.w, b.now))

InitLive ==
    /\ routes = << >>
    /\ idle \in BOOLEAN
    /\ refresh_rate = 60
    /\ refresh_rate_idle = 5
    /\ now = 0
    /\ control_flow = Poll
    /\ applied = << >>
    /\ received = << >>
    /\ redraw_requested_flag = FALSE
    /\ loop = "start"
    /\ last = Seen(Enter(<< >>, 0), "none")

\* new_events(StartCause::Init)
live_new_events_init ==
    /\ loop = "start"
    /\ \E vs \in VSyncs : Land(try_create_window(now, vs), "none")
    /\ loop' = "running"
    /\ UNCHANGED <<idle, refresh_rate, refresh_rate_idle, received>>

\* Application::window_event for the event
live_window_event_for(event) ==
    /\ loop = "running"
    /\ \E d \in Deltas :
       \E rd \in LiveRenderTicks(LiveClock(now + d)),
          vs \in (IF event.kind = "Moved" THEN VSyncs ELSE {window.vsync}) :
       \E a1 \in {window_event_match(
                      [Enter(window, LiveClock(now + d)) EXCEPT
                          !.event = EventName(event)],
                      event, rd)} :
       \E a2 \in {vsync_update(a1, event, vs)} :
         Land(IF handle_window_event(a2.w, event)
                  THEN [a2 EXCEPT !.w.should_render = Immediately]
                  ELSE a2,
              window.focused)
    /\ UNCHANGED <<idle, refresh_rate, refresh_rate_idle, received, loop>>

\* Application::window_event
live_window_event == \E event \in WindowEvents : live_window_event_for(event)

\* The platform delivers the RedrawRequested it was asked for
live_redraw_callback ==
    /\ redraw_requested_flag
    /\ live_window_event_for([kind |-> "RedrawRequested", focus |-> FALSE])

\* Application::user_event with a payload other than the exit or a batch
live_user_event ==
    /\ loop = "running"
    /\ \E d \in Deltas, kind \in {"RedrawRequested", "Other"} :
       \E rd \in LiveRenderTicks(LiveClock(now + d)) :
         LET payload == [kind |-> kind, batch |-> 0]
         IN  Land(handle_user_event(
                      user_event_match(
                          [Enter(window, LiveClock(now + d)) EXCEPT
                              !.event = kind],
                          payload, rd),
                      payload),
                  window.focused)
    /\ UNCHANGED <<idle, refresh_rate, refresh_rate_idle, received, loop>>

\* Application::about_to_wait
live_about_to_wait ==
    /\ loop = "running"
    /\ \E d \in Deltas, dt \in DtTargets, moving \in BOOLEAN :
       \E rd \in LiveRenderTicks(LiveClock(now + d)),
          res \in PrepareResults(LiveClock(now + d)) :
         Land(prepare_and_animate(Enter(window, LiveClock(now + d)), res, dt,
                                  moving, rd),
              window.focused)
    /\ UNCHANGED <<idle, refresh_rate, refresh_rate_idle, received, loop>>

NextLive ==
    \/ live_new_events_init
    \/ live_window_event
    \/ live_redraw_callback
    \/ live_user_event
    \/ live_about_to_wait

\* The loop calls about_to_wait before every wait, and the platform delivers
\* the redraw callback while a request for one is outstanding
SpecLive ==
    /\ InitLive
    /\ [][NextLive]_vars
    /\ WF_vars(live_about_to_wait)
    /\ WF_vars(live_redraw_callback)

-----------------------------------------------------------------------------
(* Properties *)

\* How often batch b occurs in the sequence seq
Occurrences(seq, b) == Cardinality({i \in DOMAIN seq : seq[i] = b})

\* C1: every batch that user_event received while pending_render was true is
\* applied to the content renderer exactly once (until then it waits in
\* pending_draw_commands, unapplied), and such batches are applied in the
\* order they arrived.
C1_BufferedAppliedOnceInOrder ==
    routes # << >> =>
        /\ \A b \in DOMAIN received :
             received[b] =>
                 Occurrences(applied, b)
                     + Occurrences(window.pending_draw_commands, b) = 1
        /\ \A i, j \in DOMAIN applied :
             (i < j /\ received[applied[i]] /\ received[applied[j]])
                 => applied[i] < applied[j]

\* C2: while pending_render is true, a callback that executes no render
\* applies no batch to the content renderer: the renderer's content does not
\* change between the commit of a pending render and its execution.
C2_NoApplyWhilePending ==
    [][(routes # << >> /\ window.pending_render /\ last'.renders = 0)
           => applied' = applied]_vars

\* C3: with pending_render true, the wake time installed is
\* animation_start + animation_time, whatever should_render, the focus state
\* and the frame timing are.
C3_PendingWakeIsAnimationTime ==
    (last.op = "schedule_next_event" /\ window.pending_render)
        => control_flow
               = WaitUntil(window.animation_start + window.animation_time)

\* C3 witness: a pending render with an earlier Deadline decision, unfocused
C3_Witness ==
    /\ last.op = "schedule_next_event"
    /\ window.pending_render
    /\ window.focused = "Unfocused"
    /\ window.should_render = Deadline(Millis(10))
    /\ window.animation_start + window.animation_time = Millis(510)
    /\ control_flow = WaitUntil(Millis(510))

\* The frame deadline as C4 states it: previous_frame_start + 1 / rate
C4_FrameDeadline ==
    window.previous_frame_start
        + RoundDiv(TicksPerSec, get_refresh_rate(window))

\* C4: with pending_render false, the wake time installed is the current
\* instant for Immediately, min(d, frame deadline) for Deadline(d), and the
\* frame deadline for Wait.
C4_WakeWithoutPendingRender ==
    (last.op = "schedule_next_event" /\ ~window.pending_render)
        => control_flow =
               WaitUntil(
                   CASE window.should_render = Immediately -> now
                     [] window.should_render.tag = "Deadline" ->
                            IF window.should_render.at <= C4_FrameDeadline
                                THEN window.should_render.at
                                ELSE C4_FrameDeadline
                     [] OTHER -> C4_FrameDeadline)

\* C4 witness: a Deadline later than the frame deadline, so the frame
\* deadline is the wake time
C4_Witness ==
    /\ last.op = "schedule_next_event"
    /\ ~window.pending_render
    /\ window.should_render = Deadline(Millis(2000))
    /\ window.focused = "Focused"
    /\ refresh_rate = 60
    /\ control_flow = WaitUntil(window.previous_frame_start + 16667)

C6_WakeTimeIsCurrent ==
    loop # "start" => control_flow = WaitUntil(get_event_deadline(window, now))

\* C6 witness: an about_to_wait cycle that animated and committed a render:
\* the wake time is the new animation_start + animation_time
C6_Witness ==
    /\ last.op = "about_to_wait"
    /\ last.animated
    /\ last.requests = 1
    /\ window.pending_render
    /\ window.animation_start = now
    /\ control_flow = WaitUntil(now + window.animation_time)

\* The lag the last clock-integration step found: how far the instant it
\* read was past animation_start + animation_time (0 if it was not)
StepLag ==
    IF last.anim.read_now - last.anim.pre_start >= last.anim.pre_time
        THEN last.anim.read_now - last.anim.pre_start - last.anim.pre_time
        ELSE 0

\* By how much the last clock-integration step advanced animation_time, the
\* stall reset set aside
StepGrowth ==
    IF window.animation_start = last.anim.pre_start
        THEN window.animation_time - last.anim.pre_time
        ELSE window.animation_time

\* The case of C7: animation_time = 0 and animation_start = now - 2000 ms
C7_Stall ==
    /\ last.op = "animate"
    /\ last.anim.pre_time = 0
    /\ last.anim.read_now - last.anim.pre_start = Millis(2000)

\* C7: after the stall, one step leaves animation_time equal to dt_target
\* exactly and animation_start equal to the instant the step read as now.
C7_StallRecovery ==
    C7_Stall => /\ window.animation_time = last.anim.dt_target
                /\ window.animation_start = last.anim.read_now

\* What the step does in the case of C7: the guard sets delta to dt_target,
\* which the catch-up rule then snaps to in full, so animation_time ends at
\* 2 * dt_target; animation_start is the instant the step read.
C7_StallStepDoubles ==
    C7_Stall => /\ window.animation_time = 2 * last.anim.dt_target
                /\ window.animation_start = last.anim.read_now

\* C8: in a step whose raw delta is at most 1 second, animation_time grows
\* by dt_target + catchup, where catchup is the raw delta when that is at
\* least dt_target and a tenth of it (to the nearest tick) when it is less;
\* with dt_target 16 ms, 4 ms gives 0.4 ms and 40 ms gives 40 ms.
C8_CatchupAndGrowth ==
    (last.op = "animate" /\ StepLag <= Millis(1000))
        => LET grown == StepGrowth - last.anim.dt_target
           IN  /\ window.animation_start = last.anim.pre_start
               /\ StepLag >= last.anim.dt_target => grown = StepLag
               /\ StepLag < last.anim.dt_target =>
                      /\ 10 * grown - StepLag \in -5..5
                      /\ StepLag % 10 = 0 => 10 * grown = StepLag
               /\ (last.anim.dt_target = Millis(16) /\ StepLag = Millis(4))
                      => grown = 400
               /\ (last.anim.dt_target = Millis(16) /\ StepLag = Millis(40))
                      => grown = Millis(40)
               /\ last.anim.catchup = grown

\* C8 witness: the smoothing example, 16 ms frame period and 4 ms raw delta
C8_Witness ==
    /\ last.op = "animate"
    /\ last.anim.dt_target = Millis(16)
    /\ StepLag = Millis(4)
    /\ last.anim.catchup = 400
    /\ window.animation_time = last.anim.pre_time + Millis(16) + 400

\* Sum of the elements of a sequence of numbers
RECURSIVE SumSeq(_)
SumSeq(seq) == IF seq = << >> THEN 0 ELSE Head(seq) + SumSeq(Tail(seq))

\* C9: one clock-integration step invokes the content-animation collaborator
\* num_steps times, each time with delta step, so the simulated time handed
\* to it sums to step_dt (to within the truncation of step).
C9_CollaboratorOncePerSubStep ==
    last.op = "animate" =>
        /\ Len(last.anim.calls) = last.anim.num_steps
        /\ \A i \in DOMAIN last.anim.calls :
               last.anim.calls[i] = last.anim.step
        /\ last.anim.step_dt - SumSeq(last.anim.calls)
               \in 0..(last.anim.num_steps - 1)

\* What C10 says of num_steps and step apart from their product
C10_Steps ==
    LET n  == last.anim.num_steps
        st == last.anim.step
        dt == last.anim.step_dt
    IN  /\ dt = StepGrowth
        /\ n >= 1
        \* n = ceil(dt / MAX_ANIMATION_DT)
        /\ (n - 1) * TicksPerSec < dt * MAX_ANIMATION_DT_PER_SEC
        /\ dt * MAX_ANIMATION_DT_PER_SEC <= n * TicksPerSec
        \* each sub-step is at most MAX_ANIMATION_DT
        /\ st * MAX_ANIMATION_DT_PER_SEC <= TicksPerSec
        /\ last.anim.calls # << >> /\ last.anim.calls[1] = st
        /\ dt = Millis(50) => n = 6

\* C10 as stated: num_steps = ceil(step_dt / MAX_ANIMATION_DT),
\* num_steps >= 1, each sub-step at most MAX_ANIMATION_DT, and
\* num_steps * step = step_dt.
C10_SubStepsOriginal ==
    (last.op = "animate" /\ last.anim.step_dt > 0)
        => /\ C10_Steps
           /\ last.anim.num_steps * last.anim.step = last.anim.step_dt

\* C10 amended: as stated, except that step is step_dt / num_steps rounded
\* down to the clock's resolution: num_steps * step is at most step_dt and
\* falls short of it by less than num_steps ticks (and by nothing when
\* num_steps divides step_dt).
C10_SubStepsAmended ==
    (last.op = "animate" /\ last.anim.step_dt > 0)
        => /\ C10_Steps
           /\ last.anim.step_dt - last.anim.num_steps * last.anim.step
                  \in 0..(last.anim.num_steps - 1)
           /\ last.anim.step_dt % last.anim.num_steps = 0
                  => last.anim.num_steps * last.anim.step = last.anim.step_dt

\* C10 witness: step_dt = 50 ms gives 6 sub-steps of 8333 ticks, 2 ticks short
C10_Witness ==
    /\ last.op = "animate"
    /\ last.anim.step_dt = Millis(50)
    /\ last.anim.num_steps = 6
    /\ last.anim.step = 8333
    /\ window.animation_time = last.anim.pre_time + Millis(50)

-----------------------------------------------------------------------------
(* DecisionMerge *)

\* C11: merging a decision into itself leaves it as it was.
C11_UpdateIdempotent ==
    (last.op = "update" /\ last.rhs = last.lhs)
        => window.should_render = last.lhs

\* A deadline has been merged into the same deadline
C11_Witness ==
    /\ last.op = "update"
    /\ last.lhs = Deadline(Millis(5))
    /\ last.rhs = Deadline(Millis(5))
    /\ window.should_render = Deadline(Millis(5))

\* C12: Immediately absorbs: a merge with Immediately on either side gives
\* Immediately, whatever the other operand is.
C12_ImmediatelyAbsorbs ==
    (last.op = "update" /\ (last.lhs = Immediately \/ last.rhs = Immediately))
        => window.should_render = Immediately

\* A deadline has been merged into Immediately, which stayed
C12_Witness ==
    /\ last.op = "update"
    /\ last.lhs = Immediately
    /\ last.rhs.tag = "Deadline"
    /\ window.should_render = Immediately

\* C13: merging two deadlines gives the deadline at the earlier of the two
\* instants, whichever operand holds which.
C13_EarlierDeadline ==
    (last.op = "update" /\ last.lhs.tag = "Deadline" /\ last.rhs.tag = "Deadline")
        => window.should_render = Deadline(Min(last.lhs.at, last.rhs.at))

\* An earlier deadline has replaced a later one
C13_Witness ==
    /\ last.op = "update"
    /\ last.lhs = Deadline(Millis(9))
    /\ last.rhs = Deadline(Millis(2))
    /\ window.should_render = Deadline(Millis(2))

\* C14: Wait is neutral: Wait merged with a deadline, in either position,
\* gives that deadline, and Wait merged with Wait gives Wait.
C14_WaitNeutral ==
    last.op = "update" =>
        /\ (last.lhs = Wait /\ last.rhs.tag = "Deadline")
               => window.should_render = last.rhs
        /\ (last.lhs.tag = "Deadline" /\ last.rhs = Wait)
               => window.should_render = last.lhs
        /\ (last.lhs = Wait /\ last.rhs = Wait)
               => window.should_render = Wait

\* Wait has been merged into a deadline, which stayed
C14_Witness ==
    /\ last.op = "update"
    /\ last.lhs = Deadline(Millis(5))
    /\ last.rhs = Wait
    /\ window.should_render = Deadline(Millis(5))

\* update folded over a sequence of decisions, left to right
RECURSIVE fold(_, _)
fold(start, seq) ==
    IF seq = << >> THEN start ELSE fold(update(start, Head(seq)), Tail(seq))

\* The orderings of 1..n: its permutations
Orderings(n) ==
    {p \in [1..n -> 1..n] : \A i, j \in 1..n : p[i] = p[j] => i = j}

\* C15: the merge is commutative and associative, and the decisions merged
\* into the starting one give the same result in every order.
C15_OrderIndependent ==
    /\ last.op = "update"
           => update(last.rhs, last.lhs) = window.should_render
    /\ Len(last.folded) = 2
           => update(last.start, update(last.folded[1], last.folded[2]))
                  = window.should_render
    /\ \A p \in Orderings(Len(last.folded)) :
           fold(last.start, [i \in 1..Len(last.folded) |-> last.folded[p[i]]])
               = window.should_render

\* Three different decisions have been merged into Wait, the earliest
\* deadline first
C15_Witness ==
    /\ last.start = Wait
    /\ last.folded = <<Deadline(Millis(2)), Wait, Deadline(Millis(9))>>
    /\ window.should_render = Deadline(Millis(2))

-----------------------------------------------------------------------------
(* EventDeadlineScheduler: the floor of the refresh rate *)

\* C16: whatever the configured active and idle refresh rates are, 0
\* included, the rate the frame period is divided by is at least 1, and the
\* frame deadline is later than previous_frame_start by at most one second;
\* so is the wake installed while no render is pending and the decision is
\* not Immediately.
C16_RefreshRateFloor ==
    /\ get_refresh_rate(window) >= 1
    /\ get_frame_deadline(window) - window.previous_frame_start
           \in 1..TicksPerSec
    /\ ( /\ last.op = "schedule_next_event"
         /\ ~window.pending_render
         /\ window.should_render # Immediately )
           => control_flow.at <= window.previous_frame_start + TicksPerSec

\* Both rates are configured as 0 and the wake is one second after the
\* previous frame start
C16_Witness ==
    /\ last.op = "schedule_next_event"
    /\ refresh_rate = 0
    /\ refresh_rate_idle = 0
    /\ ~window.pending_render
    /\ window.should_render = Wait
    /\ control_flow = WaitUntil(window.previous_frame_start + TicksPerSec)

-----------------------------------------------------------------------------
(* FocusedState *)

\* The step changes the focus state of the window
FocusChanged == routes # << >> /\ routes'[1].focused # routes[1].focused

\* The step is the handling of the named window event
OnWindowEvent(name) == last'.op = "window_event" /\ last'.event = name

\* C17, as stated: the focus state changes only from Unfocused or
\* UnfocusedNotDrawn to Focused on a focus-gained event, from Focused to
\* UnfocusedNotDrawn on a focus-lost event, and from UnfocusedNotDrawn to
\* Unfocused in a step that renders.
C17_FocusTransitionsOriginal ==
    [][FocusChanged =>
          \/ /\ routes[1].focused \in {"Unfocused", "UnfocusedNotDrawn"}
             /\ routes'[1].focused = "Focused"
             /\ OnWindowEvent("FocusGained")
          \/ /\ routes[1].focused = "Focused"
             /\ routes'[1].focused = "UnfocusedNotDrawn"
             /\ OnWindowEvent("FocusLost")
          \/ /\ routes[1].focused = "UnfocusedNotDrawn"
             /\ routes'[1].focused = "Unfocused"
             /\ last'.renders >= 1]_vars

\* C17, amended: as stated, except that a focus-lost event leads to
\* UnfocusedNotDrawn from Unfocused as well as from Focused.
C17_FocusTransitionsAmended ==
    [][FocusChanged =>
          \/ /\ routes[1].focused \in {"Unfocused", "UnfocusedNotDrawn"}
             /\ routes'[1].focused = "Focused"
             /\ OnWindowEvent("FocusGained")
          \/ /\ routes[1].focused \in {"Focused", "Unfocused"}
             /\ routes'[1].focused = "UnfocusedNotDrawn"
             /\ OnWindowEvent("FocusLost")
          \/ /\ routes[1].focused = "UnfocusedNotDrawn"
             /\ routes'[1].focused = "Unfocused"
             /\ last'.renders >= 1]_vars

\* A focus-lost event has been handled and the window is UnfocusedNotDrawn
C17_Witness ==
    /\ last.op = "window_event"
    /\ last.event = "FocusLost"
    /\ last.renders = 0
    /\ window.focused = "UnfocusedNotDrawn"

-----------------------------------------------------------------------------
(* FrameTiming *)

\* The step changes previous_frame_start or last_dt of the window
FrameTimingChanged ==
    /\ routes # << >>
    /\ \/ routes'[1].previous_frame_start # routes[1].previous_frame_start
       \/ routes'[1].last_dt # routes[1].last_dt

\* C18, as stated: previous_frame_start and last_dt change only in a step
\* in which render() ran.
C18_FrameTimingOriginal ==
    [][FrameTimingChanged => last'.renders >= 1]_vars

\* C18, amended: previous_frame_start and last_dt change only in a step in
\* which render() ran, or in an about_to_wait cycle that prepared and did not
\* animate; such a cycle sets last_dt to the time since previous_frame_start
\* and previous_frame_start to the cycle's now.
C18_FrameTimingAmended ==
    [][FrameTimingChanged =>
          \/ last'.renders >= 1
          \/ /\ last'.op = "about_to_wait"
             /\ last'.prepared
             /\ ~last'.animated
             /\ last'.renders = 0
             /\ routes'[1].last_dt = now' - routes[1].previous_frame_start
             /\ routes'[1].previous_frame_start = now']_vars

\* A cycle that did not animate has moved previous_frame_start to its now,
\* 20 ms after the frame that was rendered before it
C18_Witness ==
    /\ last.op = "about_to_wait"
    /\ last.prepared
    /\ ~last.animated
    /\ last.renders = 0
    /\ window.last_dt = Millis(20)
    /\ window.previous_frame_start = now
    /\ window.ui_state = "Showing"

-----------------------------------------------------------------------------
(* FrameOrchestrator: the about_to_wait cycle *)

\* The step is an about_to_wait cycle
Cycle == routes # << >> /\ last'.op = "about_to_wait"

\* The instant the cycle read as now: a render that follows it takes time
CycleNow == IF last'.animated THEN last'.anim.read_now ELSE now'

\* The cycle found a pending render whose deadline has passed
CycleSkipped ==
    /\ routes[1].pending_render
    /\ CycleNow > routes[1].animation_start + routes[1].animation_time

\* The decision the cycle animates on: should_render after prepare's result
\* was merged into it, or as the cycle found it when prepare did not run
CycleDecision ==
    IF last'.prepared THEN last'.merged ELSE routes[1].should_render

\* C19, as stated: every about_to_wait cycle animates exactly when the
\* decision is Immediately, or idle is off, or a frame was skipped.
C19_AnimateOriginal ==
    [][Cycle =>
          (last'.animated <=>
              (CycleDecision = Immediately \/ ~idle \/ CycleSkipped))]_vars

\* C19, amended: a cycle that finds no render pending, or a skipped frame,
\* runs prepare and animates exactly when the merged decision is Immediately,
\* or idle is off, or the frame was skipped; a cycle that finds a render
\* pending whose deadline has not passed neither prepares nor animates.
C19_AnimateAmended ==
    [][Cycle =>
          IF ~routes[1].pending_render \/ CycleSkipped
              THEN /\ last'.prepared
                   /\ last'.animated <=>
                          (last'.merged = Immediately \/ ~idle \/ CycleSkipped)
              ELSE ~last'.prepared /\ ~last'.animated]_vars

\* In idle mode a cycle has animated on a skipped frame alone: the merged
\* decision was not Immediately and the render is still pending
C19_Witness ==
    /\ last.op = "about_to_wait"
    /\ idle
    /\ last.prepared
    /\ last.animated
    /\ last.merged # Immediately
    /\ window.pending_render
    /\ last.requests = 0

\* C20: in a cycle that animates, a skipped frame means no redraw request
\* and no render; otherwise with winit throttling one redraw is requested and
\* pending_render is set without a render in the cycle; otherwise the render
\* runs in the cycle and pending_render is false after it.
C20_ScheduleRender ==
    [][(Cycle /\ last'.animated) =>
          IF CycleSkipped
              THEN last'.requests = 0 /\ last'.renders = 0
              ELSE IF uses_winit_throttling(routes[1])
                  THEN /\ last'.requests = 1
                       /\ redraw_requested_flag'
                       /\ routes'[1].pending_render
                       /\ last'.renders = 0
                  ELSE /\ last'.renders = 1
                       /\ ~routes'[1].pending_render
                       /\ last'.requests = 0]_vars

\* A cycle on a blocking vsync has animated and rendered, and no render is
\* pending after it
C20_Witness ==
    /\ last.op = "about_to_wait"
    /\ last.animated
    /\ last.renders = 1
    /\ last.requests = 0
    /\ ~uses_winit_throttling(window)
    /\ ~window.pending_render
    /\ now = last.anim.read_now + Millis(4)

-----------------------------------------------------------------------------
(* The redraw callback and the DrawCommandBuffer *)

\* The step is a redraw callback: RedrawRequested as a window event or as a
\* user event
RedrawCallback ==
    /\ routes # << >>
    /\ last'.op \in {"window_event", "user_event"}
    /\ last'.event = "RedrawRequested"

\* C21: a redraw callback that finds a render pending renders exactly once
\* and then flushes the command buffer to the renderer; one that finds none
\* pending does not render, leaves the counter and the frame timing as they
\* were, and sets should_render to Immediately.
C21_RedrawCallback ==
    [][RedrawCallback =>
          IF routes[1].pending_render
              THEN /\ last'.renders = 1
                   /\ ~routes'[1].pending_render
                   /\ routes'[1].pending_draw_commands = << >>
                   /\ applied' = applied \o routes[1].pending_draw_commands
              ELSE /\ last'.renders = 0
                   /\ routes'[1].num_consecutive_rendered
                          = routes[1].num_consecutive_rendered
                   /\ routes'[1].previous_frame_start
                          = routes[1].previous_frame_start
                   /\ routes'[1].last_dt = routes[1].last_dt
                   /\ routes'[1].should_render = Immediately]_vars

\* The window's redraw callback has executed the pending render
C21_Witness ==
    /\ last.op = "window_event"
    /\ last.event = "RedrawRequested"
    /\ last.renders = 1
    /\ ~window.pending_render
    /\ window.num_consecutive_rendered = 1
    /\ window.pending_draw_commands = << >>

\* C22: after a redraw callback has executed a pending render the buffer is
\* empty, and should_render is Immediately if the buffer held a batch and as
\* it was if the buffer was empty.
C22_FlushForcesRender ==
    [][(RedrawCallback /\ routes[1].pending_render) =>
          /\ routes'[1].pending_draw_commands = << >>
          /\ routes'[1].should_render =
                 IF routes[1].pending_draw_commands # << >>
                     THEN Immediately
                     ELSE routes[1].should_render]_vars

\* A redraw callback has rendered and flushed a batch that arrived while the
\* render was pending: the decision is Immediately
C22_Witness ==
    /\ last.op = "user_event"
    /\ last.event = "RedrawRequested"
    /\ last.renders = 1
    /\ received = <<TRUE>>
    /\ applied = <<1, 1>>
    /\ window.pending_draw_commands = << >>
    /\ window.should_render = Immediately

\* C23: a DrawCommandBatch that arrives while no render is pending reaches
\* the renderer in the same user_event call, is not appended to the buffer,
\* and sets should_render to Immediately.
C23_BatchWithoutPendingRender ==
    [][( /\ routes # << >>
         /\ last'.op = "user_event"
         /\ last'.event = "DrawCommandBatch"
         /\ ~routes[1].pending_render ) =>
          /\ applied' = Append(applied, Len(received'))
          /\ routes'[1].pending_draw_commands = routes[1].pending_draw_commands
          /\ routes'[1].should_render = Immediately]_vars

\* The second batch has arrived with no render pending and was applied at
\* once
C23_Witness ==
    /\ last.op = "user_event"
    /\ last.event = "DrawCommandBatch"
    /\ received = <<FALSE, FALSE>>
    /\ applied = <<1, 2>>
    /\ window.pending_draw_commands = << >>
    /\ window.should_render = Immediately

-----------------------------------------------------------------------------
(* Render execution *)

\* C24: one execution of render() clears pending_render, adds exactly 1 to
\* num_consecutive_rendered, sets last_dt to the time since the old
\* previous_frame_start and previous_frame_start to now, turns
\* UnfocusedNotDrawn into Unfocused and leaves every other focus state, and
\* leaves should_render, animation_start, animation_time and the buffer as
\* they were.
C24_RenderEffects ==
    [][last'.op = "render" =>
          /\ last'.renders = 1
          /\ ~routes'[1].pending_render
          /\ routes'[1].num_consecutive_rendered
                 = routes[1].num_consecutive_rendered + 1
          /\ routes'[1].last_dt = now' - routes[1].previous_frame_start
          /\ routes'[1].previous_frame_start = now'
          /\ routes'[1].focused =
                 IF routes[1].focused = "UnfocusedNotDrawn"
                     THEN "Unfocused" ELSE routes[1].focused
          /\ routes'[1].should_render = routes[1].should_render
          /\ routes'[1].animation_start = routes[1].animation_start
          /\ routes'[1].animation_time = routes[1].animation_time
          /\ routes'[1].pending_draw_commands
                 = routes[1].pending_draw_commands]_vars

\* The third render in a row has run on a window with two buffered batches
\* and a deadline: both are still there, and the window is drawn
C24_Witness ==
    /\ last.op = "render"
    /\ window.num_consecutive_rendered = 3
    /\ ~window.pending_render
    /\ window.pending_draw_commands = <<1, 2>>
    /\ window.should_render = Deadline(Millis(30))
    /\ window.focused = "Unfocused"
    /\ window.ui_state = "Showing"
    /\ window.previous_frame_start = Millis(29)
    /\ window.last_dt = Millis(19)

-----------------------------------------------------------------------------
(* FrameOrchestrator: the two branches of the cycle *)

\* C25: a cycle that decides not to animate resets num_consecutive_rendered
\* to 0, sets last_dt to the time since previous_frame_start and
\* previous_frame_start to now, neither renders nor requests a redraw, and
\* leaves animation_start, animation_time and pending_render as they were.
C25_NotAnimating ==
    [][(Cycle /\ last'.prepared /\ ~last'.animated) =>
          /\ routes'[1].num_consecutive_rendered = 0
          /\ routes'[1].last_dt = now' - routes[1].previous_frame_start
          /\ routes'[1].previous_frame_start = now'
          /\ last'.renders = 0
          /\ last'.requests = 0
          /\ redraw_requested_flag' = redraw_requested_flag
          /\ routes'[1].animation_start = routes[1].animation_start
          /\ routes'[1].animation_time = routes[1].animation_time
          /\ routes'[1].pending_render = routes[1].pending_render]_vars

\* A cycle in idle mode has not animated: the counter is back at 0 after a
\* render, and the animation clock still shows the step simulated before
C25_Witness ==
    /\ last.op = "about_to_wait"
    /\ idle
    /\ last.prepared
    /\ ~last.animated
    /\ window.num_consecutive_rendered = 0
    /\ window.ui_state = "Showing"
    /\ window.animation_time = Millis(16)
    /\ window.previous_frame_start = now
    /\ ~window.pending_render

\* C26: a cycle that animates starts the clock step from a baseline
\* re-anchored to animation_start = now and animation_time = 0 when
\* num_consecutive_rendered was 0, and from the baseline the cycle found when
\* the counter was positive.
C26_BaselineReanchor ==
    [][(Cycle /\ last'.animated) =>
          IF routes[1].num_consecutive_rendered = 0
              THEN /\ last'.anim.pre_start = last'.anim.read_now
                   /\ last'.anim.pre_time = 0
              ELSE /\ last'.anim.pre_start = routes[1].animation_start
                   /\ last'.anim.pre_time = routes[1].animation_time]_vars

\* A cycle has animated with a positive counter, 20 ms after the baseline
\* was anchored: the step started from the 16 ms already simulated
C26_Witness ==
    /\ last.op = "about_to_wait"
    /\ last.animated
    /\ window.num_consecutive_rendered = 1
    /\ last.anim.pre_time = Millis(16)
    /\ last.anim.read_now > last.anim.pre_start

-----------------------------------------------------------------------------
(* AnimationClock: the bounds of one step *)

\* C27: with dt_target at most one second, the step_dt of one clock step is
\* at least dt_target and at most dt_target plus one second, the catch-up is
\* at most one second however long the stall was, and animation_time ends
\* at step_dt after a stall reset and at the prior time plus step_dt
\* otherwise, so it decreases only at a stall reset.
C27_StepBounds ==
    last.op = "animate" =>
        /\ last.anim.dt_target <= last.anim.step_dt
        /\ last.anim.step_dt <= last.anim.dt_target + TicksPerSec
        /\ last.anim.catchup <= TicksPerSec
        /\ window.animation_time =
               (IF last.anim.raw_delta > TicksPerSec
                    THEN 0 ELSE last.anim.pre_time) + last.anim.step_dt
        /\ window.animation_time < last.anim.pre_time
               => last.anim.raw_delta > TicksPerSec

\* After a stall of a minute the step is 32 ms, and animation_time has gone
\* down from 100 ms to it
C27_Witness ==
    /\ last.op = "animate"
    /\ last.anim.raw_delta = Millis(60000)
    /\ last.anim.dt_target = Millis(16)
    /\ last.anim.pre_time = Millis(100)
    /\ last.anim.step_dt = Millis(32)
    /\ window.animation_time = Millis(32)

-----------------------------------------------------------------------------
(* The active route *)

\* C28: with no route, about_to_wait, user_event, resumed and
\* schedule_next_event die instead of returning, and animate, schedule_render
\* and draw_frame return with nothing changed; with a route all of them
\* return.
C28_NoRoute ==
    /\ (routes = << >> /\ last.op \in {"about_to_wait", "user_event",
                                        "resumed", "schedule_next_event"})
           => last.panicked /\ control_flow = Poll
    /\ (routes = << >> /\ last.op \in {"animate", "schedule_render",
                                        "draw_frame"})
           => /\ ~last.panicked
              /\ last.renders = 0
              /\ last.requests = 0
              /\ ~last.animated
              /\ ~redraw_requested_flag
              /\ now \in {Millis(20), Millis(30)}
    /\ routes # << >> => ~last.panicked

\* about_to_wait has died on an empty routes map
C28_Witness ==
    /\ routes = << >>
    /\ last.op = "about_to_wait"
    /\ last.panicked
    /\ ~last.prepared
    /\ control_flow = Poll

-----------------------------------------------------------------------------
(* PendingRenderState *)

\* C29: the command buffer holds a batch only while a render is pending,
\* also when the window's VSync changes its throttling mode between cycles.
C29_BufferOnlyWhilePending ==
    (routes # << >> /\ window.pending_draw_commands # << >>)
        => window.pending_render

\* A batch sits in the buffer of a window whose VSync stopped throttling
\* after the redraw was requested; the render is still pending
C29_Witness ==
    /\ routes # << >>
    /\ window.pending_draw_commands = <<1>>
    /\ window.pending_render
    /\ ~uses_winit_throttling(window)
    /\ last.op = "about_to_wait"

\* C30: a cycle requests a redraw, or renders from schedule_render, only
\* when it started with no render pending; so pending_render is never set
\* when it is already set, and a cycle adds at most one redraw request.
C30_NoSecondRequest ==
    [][(Cycle /\ (last'.requests > 0 \/ last'.renders > 0)) =>
          /\ ~routes[1].pending_render
          /\ last'.requests + last'.renders = 1
          /\ last'.requests = 1 => routes'[1].pending_render]_vars

\* A cycle that started with no render pending has requested the one
\* redraw that is now outstanding
C30_Witness ==
    /\ last.op = "about_to_wait"
    /\ last.requests = 1
    /\ last.renders = 0
    /\ window.pending_render
    /\ redraw_requested_flag
    /\ window.num_consecutive_rendered = 1

-----------------------------------------------------------------------------
(* PendingRenderState: how a pending render ends *)

\* C31: pending_render goes from true to false only in a redraw callback: in
\* every other step taken with a render pending no render runs and the render
\* stays pending; a cycle that finds the frame skipped animates, moves
\* animation_start + animation_time forward and requests no redraw; and a
\* batch that arrives is appended to the buffer.
C31_PendingEndsInCallback ==
    [][(routes # << >> /\ routes[1].pending_render /\ ~RedrawCallback) =>
          /\ routes'[1].pending_render
          /\ last'.renders = 0
          /\ (Cycle /\ CycleSkipped) =>
                 /\ last'.animated
                 /\ routes'[1].animation_start + routes'[1].animation_time
                        > routes[1].animation_start + routes[1].animation_time
                 /\ last'.requests = 0
                 /\ redraw_requested_flag' = redraw_requested_flag
          /\ (last'.op = "user_event" /\ last'.event = "DrawCommandBatch") =>
                 routes'[1].pending_draw_commands
                     = Append(routes[1].pending_draw_commands, Len(received'))]_vars

\* A cycle 20 ms after the redraw was requested has found the frame skipped
\* and animated; the render is still pending, and the two batches that
\* arrived meanwhile are in the buffer
C31_Witness ==
    /\ last.op = "about_to_wait"
    /\ last.animated
    /\ last.anim.read_now = Millis(20)
    /\ last.requests = 0
    /\ last.renders = 0
    /\ window.pending_render
    /\ window.pending_draw_commands = <<1, 2>>

\* C32: a cycle that finds a render pending whose deadline has not passed
\* leaves should_render, animation_start, animation_time,
\* num_consecutive_rendered, previous_frame_start, last_dt, pending_render and
\* the command buffer as they were, and does not run prepare (nor animate,
\* render, request a redraw or apply a batch).
C32_WaitingCycle ==
    [][(Cycle /\ routes[1].pending_render /\ ~CycleSkipped) =>
          /\ routes'[1].should_render = routes[1].should_render
          /\ routes'[1].animation_start = routes[1].animation_start
          /\ routes'[1].animation_time = routes[1].animation_time
          /\ routes'[1].num_consecutive_rendered
                 = routes[1].num_consecutive_rendered
          /\ routes'[1].previous_frame_start = routes[1].previous_frame_start
          /\ routes'[1].last_dt = routes[1].last_dt
          /\ routes'[1].pending_render
          /\ routes'[1].pending_draw_commands = routes[1].pending_draw_commands
          /\ ~last'.prepared
          /\ ~last'.animated
          /\ last'.renders = 0
          /\ last'.requests = 0
          /\ applied' = applied]_vars

\* A cycle has found the render pending and its deadline still ahead: it has
\* not prepared, and the Immediately decision, the counter of the render
\* before and the buffered batch are as the events before it left them
C32_Witness ==
    /\ last.op = "about_to_wait"
    /\ ~last.prepared
    /\ window.pending_render
    /\ window.should_render = Immediately
    /\ window.num_consecutive_rendered = 1
    /\ window.pending_draw_commands = <<1>>
    /\ now < window.animation_start + window.animation_time

-----------------------------------------------------------------------------
(* RenderDecision: where an Immediately decision ends *)

\* C33: should_render goes from Immediately to a weaker value only in a cycle
\* that animates; every cycle that animates ends with a render executed in it
\* or with pending_render true; no other callback weakens an Immediately
\* decision, and merging prepare's result into it leaves it Immediately.
C33_ImmediatelyWeakened ==
    [][routes # << >> =>
          /\ ( /\ routes[1].should_render = Immediately
               /\ routes'[1].should_render # Immediately )
                 => (Cycle /\ last'.animated)
          /\ (Cycle /\ last'.animated)
                 => (last'.renders = 1 \/ routes'[1].pending_render)
          /\ (Cycle /\ last'.prepared /\ routes[1].should_render = Immediately)
                 => last'.merged = Immediately]_vars

\* A cycle that found the frame skipped has taken an Immediately decision
\* back to Wait without rendering: the render it waits for is still pending
C33_Witness ==
    /\ last.op = "about_to_wait"
    /\ last.animated
    /\ ~last.anim.moving
    /\ last.merged = Immediately
    /\ window.should_render = Wait
    /\ window.ui_state = "Showing"
    /\ last.renders = 0
    /\ last.requests = 0
    /\ window.pending_render

\* C34: after a cycle that animated, should_render is Immediately if the
\* animation collaborator reported motion and Wait if it did not, whatever
\* the decision was before the cycle and after prepare's result was merged:
\* a Deadline does not survive it.
C34_DecisionAfterAnimating ==
    (last.op = "about_to_wait" /\ last.animated)
        => window.should_render =
               IF last.anim.moving THEN Immediately ELSE Wait

\* A cycle has animated on a merged Deadline decision with nothing moving:
\* the decision is Wait
C34_Witness ==
    /\ last.op = "about_to_wait"
    /\ last.animated
    /\ last.merged.tag = "Deadline"
    /\ ~last.anim.moving
    /\ window.should_render = Wait

-----------------------------------------------------------------------------
(* AnimationClock: the simulated time stays ahead of the wall clock *)

\* C35: after a clock step with dt_target > 0, animation_start +
\* animation_time is later than the instant the step read as now; so the wake
\* time that get_event_deadline gives for a render pending on that clock is
\* later than that instant too.
C35_ClockAhead ==
    (last.op = "animate" /\ last.anim.dt_target > 0)
        => /\ window.animation_start + window.animation_time
                  > last.anim.read_now
           /\ get_event_deadline([window EXCEPT !.pending_render = TRUE],
                                 last.anim.read_now)
                  > last.anim.read_now

\* A step of one tick has found the clock 15 ticks behind and caught up:
\* the simulated time is one tick ahead of now
C35_Witness ==
    /\ last.op = "animate"
    /\ last.anim.dt_target = 1
    /\ last.anim.raw_delta = 15
    /\ window.animation_start + window.animation_time = last.anim.read_now + 1

-----------------------------------------------------------------------------
(* Progress while the loop runs *)

\* C36: whenever should_render is Immediately, a render executes later on,
\* as long as about_to_wait keeps being called and a requested redraw
\* callback is delivered.  (An event that changes nothing may follow at the
\* same instant, so a state reached by a render has a twin that no render
\* led to, from which the render still has to come.)
C36_ImmediatelyLeadsToRender ==
    (routes # << >> /\ window.should_render = Immediately)
        ~> (last.renders >= 1)

\* The redraw callback has executed the render that a cycle asked for 20 ms
\* before; the window is shown and nothing more is to be drawn
C36_Witness ==
    /\ last.renders = 1
    /\ now = Millis(20)
    /\ window.animation_start + window.animation_time = Millis(16)
    /\ window.ui_state = "Showing"
    /\ uses_winit_throttling(window)
    /\ ~window.pending_render
    /\ ~redraw_requested_flag
    /\ window.should_render = Wait

\* The frame period at a refresh rate
FramePeriod(rate) == RoundDiv(TicksPerSec, Max(rate, 1))

====
